---- MODULE Spec2Model ----
(***************************************************************************)
(* Model of the two sample-synchronous adaptive estimators of SPTK:        *)
(* AdaptiveMelCepstralAnalysis and AdaptiveGeneralizedCepstralAnalysis.    *)
(*                                                                         *)
(* A double is modelled as a fixed-point number: the integer v stands for  *)
(* v / Scale.  Sums and differences are exact, a product or a quotient is  *)
(* rounded toward zero to the next multiple of 1 / Scale.  An infinity     *)
(* (std::log(0.0), a quotient by 0.0) is the value Huge of its sign.       *)
(* A std::vector<double> is a sequence; C++ index k is index k + 1 here.   *)
(***************************************************************************)
EXTENDS Integers, Sequences, FiniteSets, TLC

(***************************************************************************)
(* Bounds of the model.                                                    *)
(***************************************************************************)
\* resolution of the fixed-point numbers: 1.0 is Scale
Scale == 16
\* calls of Run on one state container in Spec
MaxCalls == 4
\* calls of Run on each of the two state containers in SpecPair
MaxPairCalls == 2
\* calls of Run, on both state containers together, in SpecMix
MaxMixCalls == 3
\* the largest initial and target codebook sizes in SpecLbg
MaxInitialSize == 3
MaxTargetSize == 9
\* the last pass of the design loop in which a collaborator is made to fail
MaxFailingPass == 4
\* the bits of an int in the model of InputSourceFromArray
IntWidth == 4
\* calls of InputSourceFromArray::Get in SpecGet
MaxGetCalls == 4
\* calls of StatisticsAccumulation::Run and Clear in SpecClear
MaxStatisticsCalls == 3

One == Scale
Half == Scale \div 2
Quarter == Scale \div 4
Huge == 1000 * Scale

(***************************************************************************)
(* Arithmetic on doubles.                                                  *)
(***************************************************************************)
TruncDiv(p, q) == IF p >= 0 THEN p \div q ELSE -((-p) \div q)

Mul(a, b) == TruncDiv(a * b, Scale)

\* a / b; a division by 0.0 gives an infinity of the dividend's sign
Div(a, b) ==
    IF b = 0 THEN (IF a < 0 THEN -Huge ELSE Huge)
    ELSE IF b > 0 THEN TruncDiv(a * Scale, b) ELSE TruncDiv(-(a * Scale), -b)

Ln2 == (693 * Scale) \div 1000

\* std::log: ln 2 times the binary logarithm, linear between two powers of two
RECURSIVE Log(_)
Log(x) ==
    IF x <= 0 THEN -Huge
    ELSE IF x >= 2 * One THEN Ln2 + Log(x \div 2)
    ELSE IF x < One THEN Log(2 * x) - Ln2
    ELSE TruncDiv((x - One) * Ln2, One)

\* the largest r >= lo with r^n <= t
RECURSIVE RootFrom(_, _, _)
RootFrom(r, n, t) ==
    LET RECURSIVE Pow(_, _)
        Pow(b, k) == IF k = 0 THEN 1 ELSE b * Pow(b, k - 1)
    IN IF Pow(r + 1, n) > t THEN r ELSE RootFrom(r + 1, n, t)

\* std::sqrt of a non-negative double
Sqrt(x) == IF x <= 0 THEN 0 ELSE RootFrom(0, 2, x * Scale)

(***************************************************************************)
(* std::vector<double>                                                     *)
(***************************************************************************)
Zeros(n) == [k \in 1..n |-> 0]

\* resize(n): the elements kept, the new ones value-initialized
Resize(v, n) == [k \in 1..n |-> IF k <= Len(v) THEN v[k] ELSE 0]

ResizeFillAlways(v, n) == Zeros(n)

\* if (v.size() != n) { v.resize(n); std::fill(v.begin(), v.end(), 0.0); }
ResizeFill(v, n) == IF Len(v) # n THEN Zeros(n) ELSE v

(***************************************************************************)
(* The arguments of one call of Run.  x is the input sample; args tells    *)
(* which of the pointers handed to Run is NULL; filter_ok and conv_ok are  *)
(* the answers of the collaborators (the filter primitive and the final    *)
(* conversion) to this call.                                               *)
(***************************************************************************)
ArgKinds == {"ok", "null_prediction_error", "null_output", "null_buffer"}

Call(args, x, filter_ok, conv_ok) ==
    [args |-> args, x |-> x, filter_ok |-> filter_ok, conv_ok |-> conv_ok]

\* if (!is_valid_ || NULL == prediction_error || NULL == output || NULL == buffer)
CheckInputsNoValidity(e, c) == c.args = "ok"

CheckInputs(e, c) == e.is_valid /\ c.args = "ok"

\* the caller's variables before the first call
NoOutput == [ret |-> FALSE, prediction_error |-> 0, cepstrum |-> <<>>]

(***************************************************************************)
(* Collaborators of the mel variant.                                       *)
(***************************************************************************)
MlsaDigitalFilterIsValid(num_order) == num_order >= 0

MlsaDigitalFilterCoefficientsToMelCepstrumIsValid(num_order) == num_order >= 0

\* sum of coefficients[m] * d[m] for m = from..M (C++ indices of coefficients)
RECURSIVE FilterSum(_, _, _, _)
FilterSum(coefficients, d, from, M) ==
    IF from > M THEN 0
    ELSE Mul(coefficients[from + 1], d[from]) + FilterSum(coefficients, d, from + 1, M)

\* The filter primitive: a recursive filter with a delay line of its own,
\* which it sizes on first use.  It rejects a coefficient vector whose length
\* is not num_order + 1, or when the collaborator answers so.
MlsaDigitalFilterRun(num_order, coefficients, x, signals, filter_ok) ==
    IF Len(coefficients) # num_order + 1 \/ ~filter_ok
    THEN [ok |-> FALSE, y |-> 0, signals |-> signals]
    ELSE LET d == ResizeFill(signals, num_order)
             y == x + FilterSum(coefficients, d, 1, num_order)
         IN [ok |-> TRUE, y |-> y,
             signals |-> [k \in 1..num_order |-> IF k = 1 THEN y ELSE d[k - 1]]]

\* The final conversion of the mel variant: c[M] = b[M], c[m] = b[m] + alpha b[m+1].
MlsaDigitalFilterCoefficientsToMelCepstrumRun(num_order, alpha, b, conv_ok) ==
    IF Len(b) # num_order + 1 \/ ~conv_ok
    THEN [ok |-> FALSE, c |-> <<>>]
    ELSE [ok |-> TRUE,
          c |-> [k \in 1..(num_order + 1) |->
                    IF k = num_order + 1 THEN b[k] ELSE b[k] + Mul(alpha, b[k + 1])]]

(***************************************************************************)
(* AdaptiveMelCepstralAnalysis                                             *)
(***************************************************************************)
\* AdaptiveMelCepstralAnalysis::Buffer as constructed
MelBuffer ==
    [kind |-> "mel",
     mlsa_digital_filter_coefficients_ |-> <<>>,
     inverse_mlsa_digital_filter_coefficients_ |-> <<>>,
     buffer_for_phi_digital_filter_ |-> <<>>,
     gradient_ |-> <<>>,
     buffer_for_mlsa_digital_filter_ |-> <<>>,
     prev_prediction_error_ |-> 0,
     prev_epsilon_ |-> One]

MelConstraintsMomentumOpen(c) ==
    ~(c.min_epsilon <= 0 \/ c.momentum < 0 \/ One < c.momentum
      \/ c.forgetting_factor < 0 \/ One <= c.forgetting_factor
      \/ c.step_size_factor <= 0 \/ One <= c.step_size_factor
      \/ ~MlsaDigitalFilterIsValid(c.num_order)
      \/ ~MlsaDigitalFilterCoefficientsToMelCepstrumIsValid(c.num_order))

\* the constructor's check: is_valid_ stays true iff this holds
MelConstraints(c) ==
    ~(c.min_epsilon <= 0 \/ c.momentum < 0 \/ One <= c.momentum
      \/ c.forgetting_factor < 0 \/ One <= c.forgetting_factor
      \/ c.step_size_factor <= 0 \/ One <= c.step_size_factor
      \/ ~MlsaDigitalFilterIsValid(c.num_order)
      \/ ~MlsaDigitalFilterCoefficientsToMelCepstrumIsValid(c.num_order))

MelPrepareGradientOneMore(M, buffer) ==
    [buffer EXCEPT
        !.mlsa_digital_filter_coefficients_ = ResizeFill(@, M + 1),
        !.inverse_mlsa_digital_filter_coefficients_ =
            IF Len(@) # M + 1 THEN [Resize(@, M + 1) EXCEPT ![1] = 0] ELSE @,
        !.buffer_for_phi_digital_filter_ = ResizeFill(@, M + 1),
        !.gradient_ = ResizeFill(@, M + 1)]

\* "Prepare memories."
MelPrepare(M, buffer) ==
    [buffer EXCEPT
        !.mlsa_digital_filter_coefficients_ = ResizeFill(@, M + 1),
        !.inverse_mlsa_digital_filter_coefficients_ =
            IF Len(@) # M + 1 THEN [Resize(@, M + 1) EXCEPT ![1] = 0] ELSE @,
        !.buffer_for_phi_digital_filter_ = ResizeFill(@, M + 1),
        !.gradient_ = ResizeFill(@, M)]

NegateShapeAndGain(b, inverse) == [k \in 1..Len(inverse) |-> -b[k]]

\* std::transform(b.begin() + 1, b.end(), inverse.begin() + 1, negate)
NegateShape(b, inverse) ==
    [k \in 1..Len(inverse) |-> IF k = 1 THEN inverse[1] ELSE -b[k]]

\* for (i = 1; i < num_order; ++i) e[i] += alpha * (e[i + 1] - e[i - 1]);
RECURSIVE PhiInterior(_, _, _, _)
PhiInterior(e, i, M, alpha) ==
    IF i >= M THEN e
    ELSE PhiInterior([e EXCEPT ![i + 1] = @ + Mul(alpha, e[i + 2] - e[i])],
                     i + 1, M, alpha)

PhiDigitalFilterUnshifted(M, alpha, e, prev_prediction_error) ==
    PhiInterior([e EXCEPT ![1] = Mul(alpha, e[1])
                              + Mul(One - Mul(alpha, alpha), prev_prediction_error)],
                1, M, alpha)

\* "Apply phi digital filter."
PhiDigitalFilter(M, alpha, e, prev_prediction_error) ==
    LET beta == One - Mul(alpha, alpha)
        head == [e EXCEPT ![1] = Mul(alpha, e[1]) + Mul(beta, prev_prediction_error)]
        upd == PhiInterior(head, 1, M, alpha)
    IN [k \in 1..(M + 1) |-> IF k = 1 THEN upd[1] ELSE upd[k - 1]]

NoFloor(curr_epsilon, min_epsilon) == curr_epsilon

\* if (curr_epsilon < min_epsilon_) curr_epsilon = min_epsilon_;
Floor(curr_epsilon, min_epsilon) ==
    IF curr_epsilon < min_epsilon THEN min_epsilon ELSE curr_epsilon

\* "Update epsilon": forgetting-factor smoothing of the squared value v, floored
UpdateEpsilon(e, prev_epsilon, v) ==
    Floor(Mul(e.forgetting_factor, prev_epsilon)
              + Mul(One - e.forgetting_factor, Mul(v, v)),
          e.min_epsilon)

GradientStepUnweighted(momentum, g, sigma, f) == g - Mul(sigma, f)

\* gradient[i] = momentum_ * gradient[i] - sigma * f
GradientStep(momentum, g, sigma, f) == Mul(momentum, g) - Mul(sigma, f)

UpdateCoefficientsStaleGradient(e, M, coefficients, gradient, regressor, prediction_error, curr_epsilon) ==
    IF 0 < M
    THEN LET sigma == Mul(2 * (One - e.momentum), prediction_error)
             mu == Div(e.step_size_factor, M * curr_epsilon)
         IN [gradient |-> [i \in 1..M |->
                              GradientStep(e.momentum, gradient[i], sigma, regressor[i])],
             coefficients |-> [k \in 1..(M + 1) |->
                 IF k = 1 THEN coefficients[1]
                 ELSE coefficients[k] - Mul(mu, gradient[k - 1])]]
    ELSE [gradient |-> gradient, coefficients |-> coefficients]

\* "Update MLSA digital filter coefficients using Eq. (27)."; regressor[i] is
\* the value the loop reads for C++ index i = 0..M-1
UpdateCoefficients(e, M, coefficients, gradient, regressor, prediction_error, curr_epsilon) ==
    IF 0 < M
    THEN LET sigma == Mul(2 * (One - e.momentum), prediction_error)
             mu == Div(e.step_size_factor, M * curr_epsilon)
             g == [i \in 1..M |-> GradientStep(e.momentum, gradient[i], sigma, regressor[i])]
         IN [gradient |-> g,
             coefficients |-> [k \in 1..(M + 1) |->
                 IF k = 1 THEN coefficients[1] ELSE coefficients[k] - Mul(mu, g[k - 1])]]
    ELSE [gradient |-> gradient, coefficients |-> coefficients]

MelRunPhiFromCurrent(e, c, buffer, o) ==
    IF ~CheckInputs(e, c) THEN [buffer |-> buffer, out |-> [o EXCEPT !.ret = FALSE]]
    ELSE
    LET M == e.num_order
        b1 == MelPrepare(M, buffer)
        b2 == [b1 EXCEPT !.inverse_mlsa_digital_filter_coefficients_ =
                             NegateShape(b1.mlsa_digital_filter_coefficients_, @)]
        f == MlsaDigitalFilterRun(M, b2.inverse_mlsa_digital_filter_coefficients_, c.x,
                                  b2.buffer_for_mlsa_digital_filter_, c.filter_ok)
    IN  IF ~f.ok THEN [buffer |-> b2, out |-> [o EXCEPT !.ret = FALSE]]
        ELSE
        LET curr_prediction_error == f.y
            phi == PhiDigitalFilter(M, e.alpha, b2.buffer_for_phi_digital_filter_,
                                    curr_prediction_error)
            curr_epsilon == UpdateEpsilon(e, b2.prev_epsilon_, curr_prediction_error)
            u == UpdateCoefficients(e, M, b2.mlsa_digital_filter_coefficients_,
                                    b2.gradient_, [i \in 1..M |-> phi[i + 1]],
                                    curr_prediction_error, curr_epsilon)
            b == [u.coefficients EXCEPT ![1] = Mul(Half, Log(curr_epsilon))]
            conv == MlsaDigitalFilterCoefficientsToMelCepstrumRun(M, e.alpha, b, c.conv_ok)
        IN  [buffer |-> [b2 EXCEPT
                            !.buffer_for_mlsa_digital_filter_ = f.signals,
                            !.buffer_for_phi_digital_filter_ = phi,
                            !.gradient_ = u.gradient,
                            !.mlsa_digital_filter_coefficients_ = b,
                            !.prev_prediction_error_ = curr_prediction_error,
                            !.prev_epsilon_ = curr_epsilon],
             out |-> [ret |-> conv.ok,
                      prediction_error |-> curr_prediction_error,
                      cepstrum |-> IF conv.ok THEN conv.c ELSE o.cepstrum]]

\* AdaptiveMelCepstralAnalysis::Run: the state container and the caller's
\* variables (return value, *prediction_error, *mel_cepstrum) after the call
MelRun(e, c, buffer, o) ==
    IF ~CheckInputs(e, c) THEN [buffer |-> buffer, out |-> [o EXCEPT !.ret = FALSE]]
    ELSE
    LET M == e.num_order
        b1 == MelPrepare(M, buffer)
        b2 == [b1 EXCEPT !.inverse_mlsa_digital_filter_coefficients_ =
                             NegateShape(b1.mlsa_digital_filter_coefficients_, @)]
        f == MlsaDigitalFilterRun(M, b2.inverse_mlsa_digital_filter_coefficients_, c.x,
                                  b2.buffer_for_mlsa_digital_filter_, c.filter_ok)
    IN  IF ~f.ok THEN [buffer |-> b2, out |-> [o EXCEPT !.ret = FALSE]]
        ELSE
        LET curr_prediction_error == f.y
            phi == PhiDigitalFilter(M, e.alpha, b2.buffer_for_phi_digital_filter_,
                                    b2.prev_prediction_error_)
            curr_epsilon == UpdateEpsilon(e, b2.prev_epsilon_, curr_prediction_error)
            u == UpdateCoefficients(e, M, b2.mlsa_digital_filter_coefficients_,
                                    b2.gradient_, [i \in 1..M |-> phi[i + 1]],
                                    curr_prediction_error, curr_epsilon)
            b == [u.coefficients EXCEPT ![1] = Mul(Half, Log(curr_epsilon))]
            conv == MlsaDigitalFilterCoefficientsToMelCepstrumRun(M, e.alpha, b, c.conv_ok)
        IN  [buffer |-> [b2 EXCEPT
                            !.buffer_for_mlsa_digital_filter_ = f.signals,
                            !.buffer_for_phi_digital_filter_ = phi,
                            !.gradient_ = u.gradient,
                            !.mlsa_digital_filter_coefficients_ = b,
                            !.prev_prediction_error_ = curr_prediction_error,
                            !.prev_epsilon_ = curr_epsilon],
             out |-> [ret |-> conv.ok,
                      prediction_error |-> curr_prediction_error,
                      cepstrum |-> IF conv.ok THEN conv.c ELSE o.cepstrum]]

(***************************************************************************)
(* Collaborator of the generalized variant.                                *)
(***************************************************************************)
GeneralizedCepstrumInverseGainNormalizationIsValid(num_order) == num_order >= 0

\* Scale^k
RECURSIVE ScalePow(_)
ScalePow(k) == IF k <= 0 THEN 1 ELSE Scale * ScalePow(k - 1)

\* The final conversion of the generalized variant, for gamma = -1 / num_stage:
\* z = K^gamma (overflowing for K = 0), c[0] = (z - 1) / gamma, c[m] = c'[m] z.
GeneralizedCepstrumInverseGainNormalizationRun(num_order, num_stage, gamma, nc, conv_ok) ==
    IF Len(nc) # num_order + 1 \/ ~conv_ok
    THEN [ok |-> FALSE, c |-> <<>>]
    ELSE LET root == IF nc[1] <= 0 THEN 0
                     ELSE RootFrom(0, num_stage, nc[1] * ScalePow(num_stage - 1))
             z == IF root = 0 THEN Huge ELSE Div(One, root)
         IN [ok |-> TRUE,
             c |-> [k \in 1..(num_order + 1) |->
                       IF k = 1 THEN Div(z - One, gamma) ELSE Mul(nc[k], z)]]

(***************************************************************************)
(* AdaptiveGeneralizedCepstralAnalysis                                     *)
(***************************************************************************)
\* AdaptiveGeneralizedCepstralAnalysis::Buffer as constructed
GenBuffer ==
    [kind |-> "gen",
     normalized_generalized_cepstrum_ |-> <<>>,
     d_ |-> <<>>,
     gradient_ |-> <<>>,
     prev_adjusted_error_ |-> One,
     prev_epsilon_ |-> One]

\* the constructor's check: is_valid_ stays true iff this holds
GenConstraints(c) ==
    ~(c.num_stage <= 0 \/ c.min_epsilon <= 0 \/ c.momentum < 0 \/ One <= c.momentum
      \/ c.forgetting_factor < 0 \/ One <= c.forgetting_factor
      \/ c.step_size_factor <= 0 \/ One <= c.step_size_factor
      \/ ~GeneralizedCepstrumInverseGainNormalizationIsValid(c.num_order))

\* GetGamma(): -1.0 / num_stage_
GetGamma(num_stage) == Div(-One, num_stage * One)

\* "Prepare memories."
GenPrepare(M, N, buffer) ==
    [buffer EXCEPT
        !.normalized_generalized_cepstrum_ = ResizeFill(@, M + 1),
        !.d_ = ResizeFill(@, M * N),
        !.gradient_ = ResizeFill(@, M)]

\* y of one stage: the sum of c[j] * d[j], j = j..0 downward, over the taps
\* d[0..M-1] of the stage at offset base, before the shift
RECURSIVE StageSum(_, _, _, _)
StageSum(c, d, base, j) ==
    IF j < 0 THEN 0
    ELSE Mul(c[j + 2], d[base + j + 1]) + StageSum(c, d, base, j - 1)

\* "Apply cascade all-zero digital filters.": stages i..N-1, in order.  With
\* M = 0 the stage reads c[0] and d[0] outside their vectors: garbage_y is
\* what y then becomes.
RECURSIVE Cascade(_, _, _, _, _, _, _, _)
Cascade(M, N, gamma, c, d, x, i, garbage_y) ==
    IF i >= N THEN [d |-> d, x |-> x]
    ELSE LET base == M * i
             y == IF M = 0 THEN garbage_y ELSE StageSum(c, d, base, M - 1)
             shifted == [k \in 1..Len(d) |->
                            IF k = base + 1 THEN x
                            ELSE IF base + 1 < k /\ k <= base + M THEN d[k - 1]
                            ELSE d[k]]
         IN Cascade(M, N, gamma, c, shifted, x + Mul(y, gamma), i + 1, garbage_y)

GenRegressorTapOffByOne(M, N, d, last_e) ==
    [i \in 1..M |-> IF i = M THEN last_e ELSE d[M * (N - 1) + i]]

GenRegressorShiftedTap(M, N, d, last_e) ==
    [i \in 1..M |-> IF i = M THEN d[M * N] ELSE d[M * (N - 1) + 1 + i]]

\* const double f(i == num_order - 1 ? last_e : e[i]), for i = 0..M-1, with
\* e = &d_[num_order * (num_stage_ - 1) + 1] after the shift
GenRegressor(M, N, d, last_e) ==
    [i \in 1..M |-> IF i = M THEN last_e ELSE d[M * (N - 1) + 1 + i]]

AdjustedErrorOwnFactor(e, prev_adjusted_error, prediction_error) ==
    Mul(e.momentum, prev_adjusted_error)
        + Mul(One - e.momentum, Mul(prediction_error, prediction_error))

AdjustedErrorFloored(e, prev_adjusted_error, prediction_error) ==
    UpdateEpsilon(e, prev_adjusted_error, prediction_error)

\* "Update gain.": the smoothed squared prediction error
AdjustedError(e, prev_adjusted_error, prediction_error) ==
    Mul(e.forgetting_factor, prev_adjusted_error)
        + Mul(One - e.forgetting_factor, Mul(prediction_error, prediction_error))

\* AdaptiveGeneralizedCepstralAnalysis::Run: the state container and the
\* caller's variables after the call.  ub holds what the reads outside d_ and
\* normalized_generalized_cepstrum_ deliver when num_order is 0.
GenRun(e, c, buffer, o, ub) ==
    IF ~CheckInputs(e, c) THEN [buffer |-> buffer, out |-> [o EXCEPT !.ret = FALSE]]
    ELSE
    LET M == e.num_order
        N == e.num_stage
        b1 == GenPrepare(M, N, buffer)
        last_e == IF Len(b1.d_) > 0 THEN b1.d_[Len(b1.d_)] ELSE ub.last_e
        cas == Cascade(M, N, GetGamma(N), b1.normalized_generalized_cepstrum_, b1.d_,
                       c.x, 0, ub.y)
        prediction_error == cas.x
        e_gamma == IF Len(cas.d) > 0 THEN cas.d[M * (N - 1) + 1] ELSE ub.e_gamma
        curr_epsilon == UpdateEpsilon(e, b1.prev_epsilon_, e_gamma)
        u == UpdateCoefficients(e, M, b1.normalized_generalized_cepstrum_, b1.gradient_,
                                GenRegressor(M, N, cas.d, last_e), prediction_error,
                                curr_epsilon)
        curr_adjusted_error == AdjustedError(e, b1.prev_adjusted_error_, prediction_error)
        nc == [u.coefficients EXCEPT ![1] = Sqrt(curr_adjusted_error)]
        conv == GeneralizedCepstrumInverseGainNormalizationRun(M, N, GetGamma(N), nc,
                                                               c.conv_ok)
    IN  [buffer |-> [b1 EXCEPT
                        !.d_ = cas.d,
                        !.gradient_ = u.gradient,
                        !.normalized_generalized_cepstrum_ = nc,
                        !.prev_adjusted_error_ = curr_adjusted_error,
                        !.prev_epsilon_ = curr_epsilon],
         out |-> [ret |-> conv.ok,
                  prediction_error |-> prediction_error,
                  cepstrum |-> IF conv.ok THEN conv.c ELSE o.cepstrum]]

(***************************************************************************)
(* LindeBuzoGrayAlgorithm: the size of the codebook that Run designs.      *)
(***************************************************************************)
LbgConfig(num_order, initial_codebook_size, target_codebook_size, min_num_vector_in_cluster, num_iteration) ==
    [num_order |-> num_order, initial_codebook_size |-> initial_codebook_size,
     target_codebook_size |-> target_codebook_size,
     min_num_vector_in_cluster |-> min_num_vector_in_cluster,
     num_iteration |-> num_iteration]

\* the constructor's check on the integer arguments; convergence_threshold
\* and splitting_factor are taken inside their ranges and the collaborators,
\* built from num_order_, valid
LbgConstraints(c) ==
    ~(c.num_order < 0 \/ c.initial_codebook_size <= 0
      \/ c.target_codebook_size <= c.initial_codebook_size
      \/ c.min_num_vector_in_cluster <= 0 \/ c.num_iteration <= 0)

\* no LindeBuzoGrayAlgorithm constructed, no call of its Run made
NoLbg ==
    [constructed |-> FALSE, is_valid |-> FALSE, config |-> LbgConfig(0, 0, 0, 0, 0),
     called |-> FALSE, ret |-> FALSE, codebook_size |-> 0]

\* for (next = current * 2; next <= target; next *= 2) { resize(next); ...;
\* current = next; }: the codebook sizes the loop goes through, in order
RECURSIVE DesignSizes(_, _, _)
DesignSizes(current_codebook_size, next_codebook_size, target_codebook_size) ==
    IF next_codebook_size <= target_codebook_size
    THEN <<next_codebook_size>>
             \o DesignSizes(next_codebook_size, next_codebook_size * 2, target_codebook_size)
    ELSE <<>>

\* LindeBuzoGrayAlgorithm::Run on num_input_vector input vectors and a
\* codebook of codebook_size vectors: the return value and the size of the
\* codebook after the call.  failing is the pass of the loop (0: none, a
\* number past the last pass: the final quantization) in which a collaborator
\* (random value generation, quantization, statistics, distance) fails.
LbgRun(l, num_input_vector, codebook_size, null_argument, failing) ==
    IF \/ ~l.is_valid
       \/ num_input_vector
              < l.config.min_num_vector_in_cluster * l.config.target_codebook_size
       \/ null_argument
       \/ codebook_size # l.config.initial_codebook_size
    THEN [ret |-> FALSE, codebook_size |-> codebook_size]
    ELSE LET sizes == DesignSizes(l.config.initial_codebook_size,
                                  l.config.initial_codebook_size * 2,
                                  l.config.target_codebook_size)
             final == IF Len(sizes) = 0 THEN codebook_size ELSE sizes[Len(sizes)]
         IN IF failing = 0 THEN [ret |-> TRUE, codebook_size |-> final]
            ELSE IF failing <= Len(sizes)
            THEN [ret |-> FALSE, codebook_size |-> sizes[failing]]
            ELSE [ret |-> FALSE, codebook_size |-> final]

(***************************************************************************)
(* InputSourceFromArray.  An int has IntWidth bits; element k of the input *)
(* array holds the value k + 1, so that a block tells where it was read.   *)
(***************************************************************************)
MaxInt == 2 ^ (IntWidth - 1) - 1

\* the int a build without overflow checks holds for the sum n
Wrap(n) == ((n + MaxInt + 1) % (2 * (MaxInt + 1))) - (MaxInt + 1)

\* input_array_[k]
ArrayValue(k) == k + 1

\* what a read outside the input array may deliver
Stray == {0, -1}

\* InputSourceFromArray(zero_padding, read_size, array_size, input_array)
\* with position_ 0; null_array: input_array is NULL
InputSource(zero_padding, read_size, array_size, null_array) ==
    [zero_padding_ |-> zero_padding, read_size_ |-> read_size,
     array_size_ |-> array_size, position_ |-> 0,
     is_valid_ |-> ~(read_size <= 0 \/ array_size <= 0 \/ null_array)]

\* InputSourceFromArray::Get(buffer) on the caller's vector: the outcomes.
\* ended: the process ends in the call; beyond: the call has read outside
\* the input array.  The sum position_ + read_size_ past MaxInt is an
\* overflow: the build wraps it or traps.
Get(s, buffer, null_buffer) ==
    IF null_buffer \/ ~s.is_valid_ \/ s.array_size_ <= s.position_
    THEN {[source |-> s, buffer |-> buffer, ret |-> FALSE, beyond |-> FALSE, ended |-> FALSE]}
    ELSE
    LET overflow == s.position_ + s.read_size_ > MaxInt
        next_position == Wrap(s.position_ + s.read_size_)
        num_nonzeros == s.array_size_ - s.position_
        Inside(k) == 0 <= k /\ k < s.array_size_
        read == IF next_position <= s.array_size_
                THEN {s.position_ + i : i \in 0..(s.read_size_ - 1)}
                ELSE {s.position_ + i : i \in 0..(num_nonzeros - 1)}
        beyond == \E k \in read : ~Inside(k)
        Filled(stray) ==
            [i \in 1..s.read_size_ |->
                IF (s.position_ + i - 1) \in read
                THEN IF Inside(s.position_ + i - 1) THEN ArrayValue(s.position_ + i - 1)
                     ELSE stray
                ELSE 0]
        trapped == [source |-> s, buffer |-> buffer, ret |-> FALSE,
                    beyond |-> FALSE, ended |-> TRUE]
    IN  (IF overflow THEN {trapped} ELSE {})
        \cup
        (IF ~s.zero_padding_ /\ s.array_size_ < next_position
         THEN {[source |-> s, buffer |-> buffer, ret |-> FALSE,
                beyond |-> FALSE, ended |-> FALSE]}
         ELSE {[source |-> [s EXCEPT !.position_ = next_position],
                buffer |-> Filled(stray), ret |-> TRUE,
                beyond |-> beyond, ended |-> FALSE]
                  : stray \in (IF beyond THEN Stray ELSE {0})}
              \cup (IF beyond THEN {[trapped EXCEPT !.beyond = TRUE]} ELSE {}))

\* no InputSourceFromArray constructed, no call of Get made
NoSource ==
    [constructed |-> FALSE, object |-> InputSource(FALSE, 0, 0, TRUE), buffer |-> <<>>,
     null_buffer |-> FALSE, ret |-> FALSE, calls |-> 0, gets |-> 0,
     beyond |-> FALSE, ended |-> FALSE]

(***************************************************************************)
(* StatisticsAccumulation.  second_order_statistics_ is held as its lower   *)
(* triangle, a function on the pairs <<i, j>> with j <= i.                 *)
(***************************************************************************)
\* StatisticsAccumulation(num_order, num_statistics_order)
Statistics(num_order, num_statistics_order) ==
    [num_order_ |-> num_order, num_statistics_order_ |-> num_statistics_order,
     is_valid_ |-> ~(num_order < 0 \/ num_statistics_order < 0 \/ 2 < num_statistics_order)]

Triangle(length) == {<<i, j>> \in (0..(length - 1)) \X (0..(length - 1)) : j <= i}

\* StatisticsAccumulation::Buffer as constructed
StatisticsBuffer ==
    [zeroth_order_statistics_ |-> 0, first_order_statistics_ |-> <<>>,
     second_order_statistics_ |-> [ij \in {} |-> 0]]

\* Buffer::Clear(): the count and every element held become zero
BufferClear(buffer) ==
    [zeroth_order_statistics_ |-> 0,
     first_order_statistics_ |-> Zeros(Len(buffer.first_order_statistics_)),
     second_order_statistics_ |-> [ij \in DOMAIN buffer.second_order_statistics_ |-> 0]]

\* StatisticsAccumulation::Run(data, buffer): the return value and the buffer
StatisticsRun(a, data, buffer, null_buffer) ==
    LET length == a.num_order_ + 1
    IN IF ~a.is_valid_ \/ Len(data) # length \/ null_buffer
       THEN [ret |-> FALSE, buffer |-> buffer]
       ELSE
       LET first == IF 1 <= a.num_statistics_order_
                    THEN Resize(buffer.first_order_statistics_, length)
                    ELSE buffer.first_order_statistics_
           second == IF 2 <= a.num_statistics_order_
                        /\ DOMAIN buffer.second_order_statistics_ # Triangle(length)
                     THEN [ij \in Triangle(length) |-> 0]
                     ELSE buffer.second_order_statistics_
       IN [ret |-> TRUE,
           buffer |->
               [zeroth_order_statistics_ |-> buffer.zeroth_order_statistics_ + 1,
                first_order_statistics_ |->
                    IF 1 <= a.num_statistics_order_
                    THEN [i \in 1..length |-> first[i] + data[i]]
                    ELSE first,
                second_order_statistics_ |->
                    IF 2 <= a.num_statistics_order_
                    THEN [ij \in Triangle(length) |->
                             second[ij] + Mul(data[ij[1] + 1], data[ij[2] + 1])]
                    ELSE second]]

\* StatisticsAccumulation::Clear(buffer): if (!is_valid_ || NULL != buffer)
\* buffer->Clear().  With a null buffer the call of Clear() is a null
\* dereference: the process ends, or the call gets by without a write.
StatisticsClear(a, buffer, null_buffer) ==
    IF ~a.is_valid_ \/ ~null_buffer
    THEN IF null_buffer
         THEN {[buffer |-> buffer, ended |-> TRUE], [buffer |-> buffer, ended |-> FALSE]}
         ELSE {[buffer |-> BufferClear(buffer), ended |-> FALSE]}
    ELSE {[buffer |-> buffer, ended |-> FALSE]}

\* no StatisticsAccumulation constructed, a Buffer as constructed
NoStatistics ==
    [constructed |-> FALSE, object |-> Statistics(-1, -1), buffer |-> StatisticsBuffer,
     op |-> "none", null_buffer |-> FALSE, ret |-> FALSE, calls |-> 0, ended |-> FALSE]

(***************************************************************************)
(* The state: two estimator instances, two state containers with the       *)
(* caller's variables of each stream.                                      *)
(***************************************************************************)
VARIABLES
    est,      \* est[i]: estimator instance i (its configuration and is_valid_), or NoEst
    buf,      \* buf[b]: state container b (a Buffer)
    out,      \* out[b]: the caller's variables of stream b: the last return value,
              \*         *prediction_error and the output vector
    last,     \* last[b]: the arguments of the last call of Run on container b
    calls,    \* calls[b]: the number of calls of Run on container b (up to MaxCalls)
    tape,     \* SpecPair: the input sequence both streams are fed;
              \* SpecMix: the calls made so far, in order
    crashed,  \* the process has ended in an access outside a vector
    lbg,      \* the LindeBuzoGrayAlgorithm instance, and the result of the last call
              \* of its Run: the return value and the size of the codebook
    source,   \* the InputSourceFromArray instance, the caller's vector, the last
              \* return value of Get and what its calls have done so far
    stats     \* the StatisticsAccumulation instance at hand, the caller's Buffer
              \* and the last call made on it

vars == <<est, buf, out, last, calls, tape, crashed, lbg, source, stats>>

Id == {1, 2}

Config(kind, num_order, alpha, num_stage, min_epsilon, momentum, forgetting_factor, step_size_factor) ==
    [kind |-> kind, num_order |-> num_order, alpha |-> alpha, num_stage |-> num_stage,
     min_epsilon |-> min_epsilon, momentum |-> momentum,
     forgetting_factor |-> forgetting_factor, step_size_factor |-> step_size_factor]

\* no instance constructed yet
NoEst ==
    [kind |-> "none", num_order |-> 0, alpha |-> 0, num_stage |-> 0, min_epsilon |-> 0,
     momentum |-> 0, forgetting_factor |-> 0, step_size_factor |-> 0, is_valid |-> FALSE]

NoCall == Call("none", 0, TRUE, TRUE)

\* the constructors: the members, and is_valid_ as the check leaves it
Constructed(c) ==
    [kind |-> c.kind, num_order |-> c.num_order, alpha |-> c.alpha,
     num_stage |-> c.num_stage, min_epsilon |-> c.min_epsilon, momentum |-> c.momentum,
     forgetting_factor |-> c.forgetting_factor, step_size_factor |-> c.step_size_factor,
     is_valid |-> IF c.kind = "mel" THEN MelConstraints(c) ELSE GenConstraints(c)]

Fresh(kind) == IF kind = "mel" THEN MelBuffer ELSE GenBuffer

Init ==
    /\ est = [i \in Id |-> NoEst]
    /\ \E kind \in {"mel", "gen"} : buf = [b \in Id |-> Fresh(kind)]
    /\ out = [b \in Id |-> NoOutput]
    /\ last = [b \in Id |-> NoCall]
    /\ calls = [b \in Id |-> 0]
    /\ tape = <<>>
    /\ crashed = FALSE
    /\ lbg = NoLbg
    /\ source = NoSource
    /\ stats = NoStatistics

\* construction of instance i, of the variant of the state containers
Construct(i, c) ==
    /\ ~crashed
    /\ est[i] = NoEst
    /\ c.kind = buf[i].kind
    /\ est' = [est EXCEPT ![i] = Constructed(c)]
    /\ UNCHANGED <<buf, out, last, calls, tape, crashed, lbg, source, stats>>

\* what the reads outside the vectors may deliver
Garbage == {0, One}

NoUB == [last_e |-> 0, y |-> 0, e_gamma |-> 0]

UB == [last_e : Garbage, y : Garbage, e_gamma : Garbage]

\* the call reads and writes outside d_ and normalized_generalized_cepstrum_
OutOfBounds(e, c) == e.kind = "gen" /\ CheckInputs(e, c) /\ e.num_order = 0

Returned(b, c, r) ==
    /\ buf' = [buf EXCEPT ![b] = r.buffer]
    /\ out' = [out EXCEPT ![b] = r.out]
    /\ last' = [last EXCEPT ![b] = c]
    /\ calls' = [calls EXCEPT ![b] = IF @ < MaxCalls THEN @ + 1 ELSE @]

\* instance i runs one call c on state container b
Run(i, b, c) ==
    /\ ~crashed
    /\ est[i] # NoEst
    /\ est[i].kind = buf[b].kind
    /\ UNCHANGED <<est, lbg, source, stats>>
    /\ IF est[i].kind = "mel"
       THEN /\ Returned(b, c, MelRun(est[i], c, buf[b], out[b]))
            /\ UNCHANGED crashed
       ELSE IF OutOfBounds(est[i], c)
       THEN \/ /\ crashed' = TRUE
               /\ UNCHANGED <<buf, out, last, calls>>
            \/ /\ \E ub \in UB : Returned(b, c, GenRun(est[i], c, buf[b], out[b], ub))
               /\ UNCHANGED crashed
       ELSE /\ Returned(b, c, GenRun(est[i], c, buf[b], out[b], NoUB))
            /\ UNCHANGED crashed

(***************************************************************************)
(* Spec: one instance on one state container, every kind of call.          *)
(***************************************************************************)
Samples == {0, One}

Configs ==
    { Config("mel", 1, 0, 0, Quarter, 0, Half, Half),
      Config("mel", 2, Half, 0, Quarter, Half, Half, Half),
      Config("mel", 0, 0, 0, Quarter, 0, Half, Half),
      Config("mel", 1, 0, 0, 2 * One, Half, 0, Quarter),
      Config("mel", 1, 0, 0, Quarter, One, Half, Half),
      Config("gen", 1, 0, 1, Quarter, Half, Half, Quarter),
      Config("gen", 2, 0, 2, Quarter, 0, Half, Half),
      Config("gen", 1, 0, 1, 2 * One, 0, 0, Quarter),
      Config("gen", 0, 0, 1, Quarter, 0, Half, Half),
      Config("gen", 1, 0, 0, Quarter, 0, Half, Half) }

Calls ==
    {Call("ok", x, TRUE, TRUE) : x \in Samples}
        \cup {Call("ok", x, TRUE, FALSE) : x \in Samples}
        \cup {Call("ok", One, FALSE, TRUE)}
        \cup {Call(a, One, TRUE, TRUE) : a \in ArgKinds \ {"ok"}}

Next ==
    \/ est[1] = NoEst /\ \E c \in Configs : Construct(1, c)
    \/ \E c \in Calls : calls[1] < MaxCalls /\ Run(1, 1, c) /\ UNCHANGED tape

Spec == Init /\ [][Next]_vars

(***************************************************************************)
(* SpecPair: instance b runs on state container b; the two streams are fed *)
(* the same sequence of calls, each at its own pace.                       *)
(***************************************************************************)
PairCalls ==
    {Call("ok", x, TRUE, TRUE) : x \in Samples} \cup {Call("ok", One, TRUE, FALSE)}

PairRun(b) ==
    /\ calls[b] < MaxPairCalls
    /\ IF calls[b] < Len(tape)
       THEN Run(b, b, tape[calls[b] + 1]) /\ UNCHANGED tape
       ELSE \E c \in PairCalls : Run(b, b, c) /\ tape' = Append(tape, c)

NextPair ==
    \/ \E i \in Id : est[i] = NoEst /\ \E c \in Configs : Construct(i, c)
    \/ \E b \in Id : PairRun(b)

SpecPair == Init /\ [][NextPair]_vars

(***************************************************************************)
(* SpecMix: two streams, each on its own state container, their calls      *)
(* interleaved in any order and made through either instance.              *)
(***************************************************************************)
MixConfigs ==
    { Config("mel", 1, 0, 0, Quarter, 0, Half, Half),
      Config("mel", 0, 0, 0, Quarter, 0, Half, Half),
      Config("gen", 1, 0, 1, Quarter, Half, Half, Quarter),
      Config("gen", 0, 0, 1, Quarter, 0, Half, Half) }

MixCalls == {Call("ok", x, TRUE, TRUE) : x \in Samples}

MixRun(i, b, c) ==
    /\ Len(tape) < MaxMixCalls
    /\ Run(i, b, c)
    /\ tape' = Append(tape, [b |-> b, i |-> i, c |-> c])

NextMix ==
    \/ \E i \in Id : est[i] = NoEst /\ \E c \in MixConfigs : Construct(i, c)
    \/ \E i \in Id, b \in Id, c \in MixCalls : MixRun(i, b, c)

SpecMix == Init /\ [][NextMix]_vars

(***************************************************************************)
(* SpecZero: one instance on a fresh state container, fed zero samples     *)
(* for ever; the caller keeps calling.                                     *)
(***************************************************************************)
ZeroConfigs ==
    { Config("mel", M, a, 0, me, mo, ff, Half) :
        M \in 0..2, a \in {0, Half}, me \in {Quarter, Half, 2 * One},
        mo \in {0, Half}, ff \in {0, Half, 3 * Quarter} }
    \cup
    { Config("gen", M, 0, N, me, mo, ff, Half) :
        M \in 0..2, N \in 1..2, me \in {Quarter, Half, 2 * One},
        mo \in {0, Half}, ff \in {0, Half, 3 * Quarter} }

ZeroCall == Call("ok", 0, TRUE, TRUE)

NextZero ==
    \/ est[1] = NoEst /\ \E c \in ZeroConfigs : Construct(1, c)
    \/ Run(1, 1, ZeroCall) /\ UNCHANGED tape

SpecZero == Init /\ [][NextZero]_vars

(***************************************************************************)
(* SpecCtor: the constructors alone, over every combination of arguments   *)
(* on and around the limits.                                               *)
(***************************************************************************)
Around == {-Quarter, 0, Half, One, One + Quarter}

AllConfigs ==
    { Config("mel", M, 0, 0, me, mo, ff, st) :
        M \in -1..1, me \in {-Quarter, 0, Quarter},
        mo \in Around, ff \in Around, st \in Around }
    \cup
    { Config("gen", M, 0, N, me, mo, ff, st) :
        M \in -1..1, N \in 0..2, me \in {-Quarter, 0, Quarter},
        mo \in Around, ff \in Around, st \in Around }

NextCtor == est[1] = NoEst /\ \E c \in AllConfigs : Construct(1, c)

SpecCtor == Init /\ [][NextCtor]_vars

(***************************************************************************)
(* SpecLbg: a LindeBuzoGrayAlgorithm is constructed and its Run called, on *)
(* every combination of sizes up to the bounds.                            *)
(***************************************************************************)
LbgConfigs ==
    { LbgConfig(0, i0, ie, v, 1) : i0 \in 0..MaxInitialSize, ie \in 0..MaxTargetSize, v \in 0..2 }

LbgConstruct(c) ==
    /\ ~lbg.constructed
    /\ lbg' = [lbg EXCEPT !.constructed = TRUE, !.config = c, !.is_valid = LbgConstraints(c)]
    /\ UNCHANGED <<est, buf, out, last, calls, tape, crashed, source, stats>>

LbgCall(num_input_vector, codebook_size, null_argument, failing) ==
    /\ lbg.constructed
    /\ ~lbg.called
    /\ LET r == LbgRun(lbg, num_input_vector, codebook_size, null_argument, failing)
       IN lbg' = [lbg EXCEPT !.called = TRUE, !.ret = r.ret,
                             !.codebook_size = r.codebook_size]
    /\ UNCHANGED <<est, buf, out, last, calls, tape, crashed, source, stats>>

NextLbg ==
    \/ \E c \in LbgConfigs : LbgConstruct(c)
    \/ \E t \in {0, MaxTargetSize, 2 * MaxTargetSize}, n \in 0..MaxInitialSize,
          null_argument \in BOOLEAN, failing \in 0..MaxFailingPass :
          LbgCall(t, n, null_argument, failing)

SpecLbg == Init /\ [][NextLbg]_vars

(***************************************************************************)
(* SpecGet: an InputSourceFromArray is constructed and its Get called      *)
(* repeatedly on the caller's vector.                                      *)
(***************************************************************************)
SourceConstruct(zero_padding, read_size, array_size, null_array) ==
    /\ ~source.constructed
    /\ source' = [source EXCEPT
                     !.constructed = TRUE,
                     !.object = InputSource(zero_padding, read_size, array_size, null_array)]
    /\ UNCHANGED <<est, buf, out, last, calls, tape, crashed, lbg, stats>>

SourceGet(null_buffer) ==
    /\ source.constructed /\ ~source.ended
    /\ source.calls < MaxGetCalls
    /\ \E r \in Get(source.object, source.buffer, null_buffer) :
          source' = [source EXCEPT
                        !.object = r.source, !.buffer = r.buffer, !.ret = r.ret,
                        !.null_buffer = null_buffer,
                        !.calls = @ + 1,
                        !.gets = IF r.ret THEN @ + 1 ELSE @,
                        !.beyond = @ \/ r.beyond,
                        !.ended = r.ended]
    /\ UNCHANGED <<est, buf, out, last, calls, tape, crashed, lbg, stats>>

NextGet ==
    \/ \E zero_padding \in BOOLEAN, read_size \in 0..MaxInt, array_size \in 0..MaxInt,
          null_array \in BOOLEAN :
          SourceConstruct(zero_padding, read_size, array_size, null_array)
    \/ \E null_buffer \in BOOLEAN : SourceGet(null_buffer)

SpecGet == Init /\ [][NextGet]_vars

(***************************************************************************)
(* SpecClear: StatisticsAccumulation instances are constructed and their   *)
(* Run and Clear called on the caller's Buffer, or on no Buffer.           *)
(***************************************************************************)
StatisticsConstruct(num_order, num_statistics_order) ==
    /\ ~stats.ended /\ stats.calls < MaxStatisticsCalls
    /\ stats' = [stats EXCEPT !.constructed = TRUE,
                              !.object = Statistics(num_order, num_statistics_order),
                              !.op = "construct"]
    /\ UNCHANGED <<est, buf, out, last, calls, tape, crashed, lbg, source>>

StatisticsCallRun(data, null_buffer) ==
    /\ stats.constructed /\ ~stats.ended /\ stats.calls < MaxStatisticsCalls
    /\ LET r == StatisticsRun(stats.object, data, stats.buffer, null_buffer)
       IN stats' = [stats EXCEPT !.buffer = r.buffer, !.ret = r.ret, !.op = "Run",
                                 !.null_buffer = null_buffer, !.calls = @ + 1]
    /\ UNCHANGED <<est, buf, out, last, calls, tape, crashed, lbg, source>>

StatisticsCallClear(null_buffer) ==
    /\ stats.constructed /\ ~stats.ended /\ stats.calls < MaxStatisticsCalls
    /\ \E r \in StatisticsClear(stats.object, stats.buffer, null_buffer) :
          stats' = [stats EXCEPT !.buffer = r.buffer, !.ended = r.ended, !.op = "Clear",
                                 !.null_buffer = null_buffer, !.calls = @ + 1]
    /\ UNCHANGED <<est, buf, out, last, calls, tape, crashed, lbg, source>>

Data == {<<>>, <<0>>, <<One>>, <<One, Half>>}

NextClear ==
    \/ \E num_order \in -1..1, num_statistics_order \in -1..3 :
          StatisticsConstruct(num_order, num_statistics_order)
    \/ \E data \in Data, null_buffer \in BOOLEAN : StatisticsCallRun(data, null_buffer)
    \/ \E null_buffer \in BOOLEAN : StatisticsCallClear(null_buffer)

SpecClear == Init /\ [][NextClear]_vars

(***************************************************************************)
(* Vocabulary of the properties.                                           *)
(***************************************************************************)
\* this step is a call of Run on state container b that returned
RunStep(b) == calls'[b] = calls[b] + 1

\* the call got past the input check of Run
Admitted(e, c) == e.is_valid /\ c.args = "ok"

\* the internal coefficient vector of a state container
Coefficients(buffer) ==
    IF buffer.kind = "mel" THEN buffer.mlsa_digital_filter_coefficients_
    ELSE buffer.normalized_generalized_cepstrum_

\* the shape coefficients (indices 1..order) a call of instance e finds
ShapeFound(e, buffer) ==
    IF Len(Coefficients(buffer)) # e.num_order + 1 THEN Zeros(e.num_order)
    ELSE Tail(Coefficients(buffer))

\* the gradient accumulator a call of instance e finds
GradientFound(e, buffer) ==
    IF Len(buffer.gradient_) # e.num_order THEN Zeros(e.num_order) ELSE buffer.gradient_

\* the caller's variables other than the return value
Outputs(o) == <<o.prediction_error, o.cepstrum>>

(***************************************************************************)
(* C1: for both estimators and every accepted configuration, the power     *)
(* estimate held by the state container after a successful Run is at       *)
(* least min_epsilon.                                                      *)
(***************************************************************************)
C1_PowerEstimateFloored ==
    \A b \in Id :
        (calls[b] > 0 /\ out[b].ret) => buf[b].prev_epsilon_ >= est[b].min_epsilon

\* zero samples have brought the smoothed power down to the floor
C1_Witness ==
    /\ calls[1] >= 2 /\ out[1].ret /\ last[1].x = 0
    /\ est[1].min_epsilon < One
    /\ buf[1].prev_epsilon_ = est[1].min_epsilon

C4_RejectedCallHasNoEffect ==
    [][/\ \A b \in Id :
             (RunStep(b) /\ ~Admitted(est[b], last'[b]))
             => (~out'[b].ret /\ buf'[b] = buf[b] /\ Outputs(out'[b]) = Outputs(out[b]))
       /\ \A i \in Id : (est[i] # NoEst /\ ~est[i].is_valid) => est'[i] = est[i]]_vars

\* an invalid instance has been called with every pointer set
C4_Witness ==
    /\ est[1] # NoEst /\ ~est[1].is_valid
    /\ calls[1] >= 2 /\ last[1].args = "ok" /\ ~out[1].ret

(***************************************************************************)
(* C5: construction leaves the instance invalid exactly when a constraint  *)
(* is violated: min_epsilon <= 0, momentum outside [0, 1), forgetting      *)
(* factor outside [0, 1), step size factor outside (0, 1), num_stage < 1   *)
(* (generalized variant), or an invalid collaborator.                      *)
(***************************************************************************)
C5_Violated(e) ==
    \/ e.min_epsilon <= 0
    \/ e.momentum < 0 \/ e.momentum >= One
    \/ e.forgetting_factor < 0 \/ e.forgetting_factor >= One
    \/ e.step_size_factor <= 0 \/ e.step_size_factor >= One
    \/ (e.kind = "gen" /\ e.num_stage < 1)
    \/ (e.kind = "mel" /\ ~MlsaDigitalFilterIsValid(e.num_order))
    \/ (e.kind = "mel" /\ ~MlsaDigitalFilterCoefficientsToMelCepstrumIsValid(e.num_order))
    \/ (e.kind = "gen" /\ ~GeneralizedCepstrumInverseGainNormalizationIsValid(e.num_order))

C5_InvalidIffConstraintViolated ==
    \A i \in Id : est[i] # NoEst => (est[i].is_valid <=> ~C5_Violated(est[i]))

\* the limits momentum = 0 and forgetting_factor = 0 are accepted
C5_Witness ==
    /\ est[1] # NoEst /\ est[1].is_valid
    /\ est[1].momentum = 0 /\ est[1].forgetting_factor = 0

(***************************************************************************)
(* C6: a state container that differs from a fresh one only in the         *)
(* contents of its vectors, each empty or already of the required length,  *)
(* gives on its first Run the same prediction error, output vector and     *)
(* resulting state as a fresh one.  (Stated for the calls that stay inside *)
(* their vectors.)                                                         *)
(***************************************************************************)
LengthIs(v, n) == Len(v) = 0 \/ Len(v) = n

\* the lag scalars are as constructed, every vector is empty or sized for e
UnusedButFilled(e, buffer) ==
    IF buffer.kind = "mel"
    THEN /\ buffer.prev_prediction_error_ = MelBuffer.prev_prediction_error_
         /\ buffer.prev_epsilon_ = MelBuffer.prev_epsilon_
         /\ LengthIs(buffer.mlsa_digital_filter_coefficients_, e.num_order + 1)
         /\ LengthIs(buffer.inverse_mlsa_digital_filter_coefficients_, e.num_order + 1)
         /\ LengthIs(buffer.buffer_for_phi_digital_filter_, e.num_order + 1)
         /\ LengthIs(buffer.gradient_, e.num_order)
         /\ LengthIs(buffer.buffer_for_mlsa_digital_filter_, e.num_order)
    ELSE /\ buffer.prev_adjusted_error_ = GenBuffer.prev_adjusted_error_
         /\ buffer.prev_epsilon_ = GenBuffer.prev_epsilon_
         /\ LengthIs(buffer.normalized_generalized_cepstrum_, e.num_order + 1)
         /\ LengthIs(buffer.d_, e.num_order * e.num_stage)
         /\ LengthIs(buffer.gradient_, e.num_order)

\* what the call gives on a fresh state container
OnFresh(e, c) ==
    IF e.kind = "mel" THEN MelRun(e, c, MelBuffer, NoOutput)
    ELSE GenRun(e, c, GenBuffer, NoOutput, NoUB)

C6_FirstUseIgnoresContents ==
    [][\A b \in Id :
          (RunStep(b) /\ Admitted(est[b], last'[b]) /\ ~OutOfBounds(est[b], last'[b])
              /\ last'[b].filter_ok /\ last'[b].conv_ok
              /\ UnusedButFilled(est[b], buf[b]))
          => (buf'[b] = OnFresh(est[b], last'[b]).buffer
              /\ out'[b] = OnFresh(est[b], last'[b]).out)]_vars

(***************************************************************************)
(* C7: two instances of the same configuration, each on a fresh state      *)
(* container and fed the same input sequence, give the same prediction     *)
(* error and output vector at every call and hold the same state after it. *)
(***************************************************************************)
C7_SameConfigurationSameResults ==
    (est[1] # NoEst /\ est[1] = est[2] /\ calls[1] = calls[2])
    => (buf[1] = buf[2] /\ out[1] = out[2])

(***************************************************************************)
(* C8: on zero samples from a fresh state container the prediction error   *)
(* is 0 at every call, the power estimate reaches min_epsilon and stays    *)
(* there, and in the mel variant the gain coefficient is from then on      *)
(* 0.5 ln(min_epsilon).  "Reaches and stays" is stated on the run's final  *)
(* state: the state that one more zero sample leaves as it is, which is    *)
(* the state of every later call, is pinned; and a pinned state stays      *)
(* pinned.                                                                 *)
(***************************************************************************)
\* the outcomes a call c of e can have for what it reads outside its vectors
Outcomes(e, c) == IF OutOfBounds(e, c) THEN UB ELSE {NoUB}

\* one more zero sample leaves the state container as it is
Steady(e, buffer, o) ==
    IF e.kind = "mel" THEN MelRun(e, ZeroCall, buffer, o).buffer = buffer
    ELSE \A ub \in Outcomes(e, ZeroCall) : GenRun(e, ZeroCall, buffer, o, ub).buffer = buffer

Pinned(e, buffer) ==
    /\ buffer.prev_epsilon_ = e.min_epsilon
    /\ buffer.kind = "mel" =>
          /\ Len(buffer.mlsa_digital_filter_coefficients_) > 0
          /\ buffer.mlsa_digital_filter_coefficients_[1] = Mul(Half, Log(e.min_epsilon))

\* instance 1 is valid and has been fed at least one zero sample
ZeroFed == est[1].is_valid /\ calls[1] > 0 /\ last[1] = ZeroCall

C8_ZeroStreamPinsPower ==
    /\ [](ZeroFed => (out[1].ret /\ out[1].prediction_error = 0))
    /\ []((ZeroFed /\ Steady(est[1], buf[1], out[1])) => Pinned(est[1], buf[1]))
    /\ [][(ZeroFed /\ Pinned(est[1], buf[1])) => Pinned(est[1], buf'[1])]_vars

(***************************************************************************)
(* C9: in the generalized variant fed zero samples, the square of the gain *)
(* coefficient (index 0) equals min_epsilon at every call from some call   *)
(* onward: it does in the run's final state, the state that one more zero  *)
(* sample leaves as it is.  (Stated for num_order >= 1, where every access *)
(* is inside its vector.)                                                  *)
(***************************************************************************)
GainSquaredIsFloor(e, buffer) ==
    /\ buffer.kind = "gen"
    /\ Len(Coefficients(buffer)) > 0
    /\ Mul(Coefficients(buffer)[1], Coefficients(buffer)[1]) = e.min_epsilon

C9_ZeroStreamPinsGain ==
    (est[1].kind = "gen" /\ est[1].num_order >= 1 /\ ZeroFed
        /\ Steady(est[1], buf[1], out[1]))
    => GainSquaredIsFloor(est[1], buf[1])

(***************************************************************************)
(* C10: a Run with input sample 0 whose prediction error is 0 leaves every *)
(* shape coefficient (indices 1..order) unchanged.                         *)
(***************************************************************************)
\* this step is a Run on b with sample 0 that computed the prediction error 0
ZeroErrorStep(b) ==
    /\ RunStep(b) /\ Admitted(est[b], last'[b]) /\ last'[b].filter_ok
    /\ last'[b].x = 0 /\ out'[b].prediction_error = 0

C10_ZeroErrorKeepsShape ==
    [][\A b \in Id :
          ZeroErrorStep(b) => Tail(Coefficients(buf'[b])) = ShapeFound(est[b], buf[b])]_vars

\* C10 as amended: ... provided the momentum is 0 or the gradient accumulator
\* the call finds is zero
C10_ZeroErrorKeepsShapeWithoutMomentum ==
    [][\A b \in Id :
          (ZeroErrorStep(b)
              /\ (est[b].momentum = 0
                  \/ GradientFound(est[b], buf[b]) = Zeros(est[b].num_order)))
          => Tail(Coefficients(buf'[b])) = ShapeFound(est[b], buf[b])]_vars

\* adapted shape coefficients have been kept by a Run with sample 0 and error 0
C10_Witness ==
    /\ calls[1] >= 2 /\ Admitted(est[1], last[1]) /\ last[1].filter_ok
    /\ last[1].x = 0 /\ out[1].prediction_error = 0
    /\ est[1].momentum = 0
    /\ Tail(Coefficients(buf[1])) # Zeros(est[1].num_order)

(***************************************************************************)
(* C11: with order 0 the gradient accumulator of a state container that    *)
(* starts empty has length 0 after every Run, in both variants: there is   *)
(* no element of it for a Run to read or write.                            *)
(***************************************************************************)
C11_GradientStaysEmpty ==
    \A b \in Id :
        (est[b].is_valid /\ est[b].num_order = 0) => Len(buf[b].gradient_) = 0

\* an order-0 instance has run twice with success on its state container
C11_Witness ==
    /\ est[1].is_valid /\ est[1].num_order = 0
    /\ calls[1] >= 2 /\ out[1].ret /\ Admitted(est[1], last[1])
    /\ Len(Coefficients(buf[1])) = 1
    /\ Len(buf[1].gradient_) = 0

(***************************************************************************)
(* C12: in the mel variant with order 0 a successful Run skips the         *)
(* regressor update and the gradient step: it modifies no element of the   *)
(* regressor buffer and none of the gradient accumulator, and of the       *)
(* coefficients it writes index 0 only.                                    *)
(***************************************************************************)
\* the regressor buffer a call of instance e finds, once the memories are prepared
RegressorFound(e, buffer) ==
    ResizeFill(buffer.buffer_for_phi_digital_filter_, e.num_order + 1)

C12_OrderZeroOnlyGainUpdates ==
    [][\A b \in Id :
          (RunStep(b) /\ est[b].kind = "mel" /\ est[b].num_order = 0
              /\ Admitted(est[b], last'[b]) /\ out'[b].ret)
          => /\ buf'[b].buffer_for_phi_digital_filter_ = RegressorFound(est[b], buf[b])
             /\ buf'[b].gradient_ = GradientFound(est[b], buf[b])
             /\ Tail(Coefficients(buf'[b])) = ShapeFound(est[b], buf[b])]_vars

(***************************************************************************)
(* C13: the first Run that gets past the input check gives every           *)
(* persistent vector its required length, with every element zero before   *)
(* it is read; no later Run of the same estimator resizes or re-zeroes     *)
(* one: each later Run computes from the contents the previous one left.   *)
(***************************************************************************)
RequiredLengths(e, buffer) ==
    /\ Len(Coefficients(buffer)) = e.num_order + 1
    /\ Len(buffer.gradient_) = e.num_order
    /\ IF buffer.kind = "mel"
       THEN Len(buffer.buffer_for_phi_digital_filter_) = e.num_order + 1
       ELSE Len(buffer.d_) = e.num_order * e.num_stage

\* the call of this step on b got past the input check and the filter primitive
RanThrough(b) ==
    /\ RunStep(b) /\ Admitted(est[b], last'[b])
    /\ est[b].kind = "mel" => last'[b].filter_ok

\* what a Run on an all-zero, just sized state container leaves: nothing but
\* the stage inputs in the delay lines
ComputedFromZeros(e, new) ==
    /\ Tail(Coefficients(new)) = Zeros(e.num_order)
    /\ new.gradient_ = Zeros(e.num_order)
    /\ IF new.kind = "mel"
       THEN new.buffer_for_phi_digital_filter_ = Zeros(e.num_order + 1)
       ELSE \A k \in 1..Len(new.d_) : (k - 1) % e.num_order # 0 => new.d_[k] = 0

\* the regressor value of the gradient step for C++ index i - 1, read off the
\* state container before (old) and after (new) the call
RegressorUsed(e, old, new, i) ==
    IF new.kind = "mel" THEN new.buffer_for_phi_digital_filter_[i + 1]
    ELSE IF i = e.num_order THEN old.d_[e.num_order * e.num_stage]
    ELSE new.d_[e.num_order * (e.num_stage - 1) + 1 + i]

\* the contents after the call are computed from the contents before it
CarriedOver(e, old, new, prediction_error) ==
    LET M == e.num_order
        sigma == Mul(2 * (One - e.momentum), prediction_error)
        mu == Div(e.step_size_factor, M * new.prev_epsilon_)
    IN /\ \A i \in 1..M :
            /\ new.gradient_[i] = GradientStep(e.momentum, old.gradient_[i], sigma,
                                               RegressorUsed(e, old, new, i))
            /\ Coefficients(new)[i + 1]
                   = Coefficients(old)[i + 1] - Mul(mu, new.gradient_[i])
       /\ IF new.kind = "mel"
          THEN new.buffer_for_phi_digital_filter_[1]
                   = Mul(e.alpha, old.buffer_for_phi_digital_filter_[1])
                         + Mul(One - Mul(e.alpha, e.alpha), old.prev_prediction_error_)
          ELSE \A k \in 1..Len(new.d_) : (k - 1) % M # 0 => new.d_[k] = old.d_[k - 1]

C13_SizedAndZeroedOnce ==
    [][\A b \in Id :
          RanThrough(b)
          => /\ RequiredLengths(est[b], buf'[b])
             /\ IF RequiredLengths(est[b], buf[b])
                THEN CarriedOver(est[b], buf[b], buf'[b], out'[b].prediction_error)
                ELSE ComputedFromZeros(est[b], buf'[b])]_vars

\* a later Run has computed from non-zero coefficients, gradient and regressor
C13_Witness ==
    /\ calls[1] >= 3 /\ Admitted(est[1], last[1]) /\ out[1].ret
    /\ est[1].num_order = 2
    /\ RequiredLengths(est[1], buf[1])
    /\ Coefficients(buf[1])[2] # 0 /\ Coefficients(buf[1])[3] # 0
    /\ buf[1].gradient_[1] # 0

(***************************************************************************)
(* C14: with the calls on two state containers interleaved in any order    *)
(* and made through the same or different instances, each stream has the   *)
(* outputs and the state that its own calls alone, made in the same order  *)
(* on a fresh state container, give; no call changes an instance, and none *)
(* ends the process, which would end the other stream with it.             *)
(***************************************************************************)
\* the results one call can have
RunOutcomes(e, c, buffer, o) ==
    IF e.kind = "mel" THEN {MelRun(e, c, buffer, o)}
    ELSE {GenRun(e, c, buffer, o, ub) : ub \in Outcomes(e, c)}

\* the calls that returned: all but the one the process ended in
Completed == IF crashed THEN SubSeq(tape, 1, Len(tape) - 1) ELSE tape

\* the results the calls of stream b among Completed[k..] can have, made alone
\* from one of the results S
RECURSIVE AloneFrom(_, _, _)
AloneFrom(b, k, S) ==
    IF k > Len(Completed) THEN S
    ELSE IF Completed[k].b # b THEN AloneFrom(b, k + 1, S)
    ELSE AloneFrom(b, k + 1,
                   UNION {RunOutcomes(est[Completed[k].i], Completed[k].c, r.buffer, r.out) :
                             r \in S})

Alone(b) == AloneFrom(b, 1, {[buffer |-> Fresh(buf[b].kind), out |-> NoOutput]})

C14_StreamsAreIndependent ==
    /\ [](\A b \in Id : [buffer |-> buf[b], out |-> out[b]] \in Alone(b))
    /\ [][\A i \in Id : est[i] # NoEst => est'[i] = est[i]]_vars
    /\ [](~crashed)

(***************************************************************************)
(* C15: on success LindeBuzoGrayAlgorithm::Run returns a codebook of size  *)
(* I = I_0 * 2^k with I >= I_E, for the smallest such k, for every valid   *)
(* pair I_0 < I_E.                                                         *)
(***************************************************************************)
\* n = i0 * 2^k for some k >= 0
RECURSIVE IsDoublingOf(_, _)
IsDoublingOf(n, i0) ==
    IF n <= i0 THEN n = i0 ELSE n % 2 = 0 /\ IsDoublingOf(n \div 2, i0)

C15_CodebookReachesTarget ==
    (lbg.called /\ lbg.ret)
    => /\ IsDoublingOf(lbg.codebook_size, lbg.config.initial_codebook_size)
       /\ lbg.codebook_size >= lbg.config.target_codebook_size
       /\ lbg.codebook_size \div 2 < lbg.config.target_codebook_size

(***************************************************************************)
(* C16: in the gradient step of the generalized variant the regressor      *)
(* value for m = 0..order-2 is the tap at offset m+1 of the last stage's   *)
(* delay line after this call's shift, and for m = order-1 it is last_e,   *)
(* the value the last tap of the last stage held when the call began and   *)
(* that the shift discards.                                                *)
(***************************************************************************)
\* the delay lines a call of instance e finds, once the memories are prepared
DelayLinesFound(e, buffer) == ResizeFill(buffer.d_, e.num_order * e.num_stage)

\* this step is a call on b, past the input check, of a generalized estimator
\* that has delay lines
GenStep(b) ==
    /\ RunStep(b) /\ est[b].kind = "gen" /\ Admitted(est[b], last'[b])
    /\ est[b].num_order >= 1

\* tap j of stage s in the delay lines d of instance e
Tap(e, d, s, j) == d[e.num_order * s + j + 1]

C16_GradientRegressor ==
    [][\A b \in Id :
          GenStep(b)
          => LET e == est[b]
                 M == e.num_order
                 N == e.num_stage
                 sigma == Mul(2 * (One - e.momentum), out'[b].prediction_error)
             IN \A m \in 0..(M - 1) :
                   buf'[b].gradient_[m + 1]
                       = Mul(e.momentum, GradientFound(e, buf[b])[m + 1])
                           - Mul(sigma,
                                 IF m = M - 1
                                 THEN Tap(e, DelayLinesFound(e, buf[b]), N - 1, M - 1)
                                 ELSE Tap(e, buf'[b].d_, N - 1, m + 1))]_vars

\* a call has used a non-zero last_e that differs from the shifted last tap
C16_Witness ==
    /\ est[1].kind = "gen" /\ est[1].num_order = 2 /\ est[1].num_stage = 2
    /\ calls[1] >= 3 /\ Admitted(est[1], last[1])
    /\ buf[1].gradient_[1] # 0 /\ buf[1].gradient_[2] # 0
    /\ buf[1].gradient_[2] # buf[1].gradient_[1]

(***************************************************************************)
(* C17: the generalized variant processes the stages in the order          *)
(* s = 0..num_stage-1, all with the coefficients the call began with: y_s  *)
(* is the sum over j = 0..order-1 of c[j+1] * tap_s[j] on the taps before  *)
(* the shift, the delay line then shifts by one and takes the stage's      *)
(* input x_s at tap 0, the next stage's input is x_s + gamma * y_s, and    *)
(* the prediction error returned is what the last stage produces.          *)
(***************************************************************************)
\* the coefficient vector a call of instance e finds, once the memories are prepared
CoefficientsFound(e, buffer) == ResizeFill(Coefficients(buffer), e.num_order + 1)

\* the sum over j..order-1 of c[j+1] * tap_s[j]
RECURSIVE TapSum(_, _, _, _, _)
TapSum(e, c, d, s, j) ==
    IF j >= e.num_order THEN 0
    ELSE Mul(c[j + 2], Tap(e, d, s, j)) + TapSum(e, c, d, s, j + 1)

\* x_s, the input of stage s; x_num_stage is what the last stage produces
RECURSIVE StageInput(_, _, _, _, _)
StageInput(e, c, d, x, s) ==
    IF s = 0 THEN x
    ELSE StageInput(e, c, d, x, s - 1)
             + Mul(GetGamma(e.num_stage), TapSum(e, c, d, s - 1, 0))

C17_CascadeOfStages ==
    [][\A b \in Id :
          (RunStep(b) /\ est[b].kind = "gen" /\ Admitted(est[b], last'[b]))
          => LET e == est[b]
                 c == CoefficientsFound(e, buf[b])
                 d == DelayLinesFound(e, buf[b])
                 x == last'[b].x
             IN /\ out'[b].prediction_error = StageInput(e, c, d, x, e.num_stage)
                /\ \A s \in 0..(e.num_stage - 1) : \A j \in 0..(e.num_order - 1) :
                      Tap(e, buf'[b].d_, s, j)
                          = IF j = 0 THEN StageInput(e, c, d, x, s)
                            ELSE Tap(e, d, s, j - 1)]_vars

(***************************************************************************)
(* C18: the generalized variant updates the power estimate to              *)
(* max(min_epsilon, f * prev + (1 - f) * t^2), f the forgetting factor and *)
(* t the input of the last stage at this call, which is tap 0 of the last  *)
(* stage after the shift (the input sample when num_stage = 1) and not the *)
(* prediction error returned.                                              *)
(***************************************************************************)
\* max(a, b)
Max(a, b) == IF a < b THEN b ELSE a

C18_PowerFromLastStageInput ==
    [][\A b \in Id :
          (RunStep(b) /\ est[b].kind = "gen" /\ Admitted(est[b], last'[b]))
          => LET e == est[b]
                 f == e.forgetting_factor
                 t == StageInput(e, CoefficientsFound(e, buf[b]),
                                 DelayLinesFound(e, buf[b]), last'[b].x, e.num_stage - 1)
             IN /\ e.num_order >= 1 => Tap(e, buf'[b].d_, e.num_stage - 1, 0) = t
                /\ buf'[b].prev_epsilon_
                       = Max(e.min_epsilon,
                             Mul(f, buf[b].prev_epsilon_) + Mul(One - f, Mul(t, t)))]_vars

(***************************************************************************)
(* C19: after every successful Run of the generalized variant the adjusted *)
(* error kept in the state container is a(n) = f * a(n-1) + (1 - f) *      *)
(* e(n)^2, e(n) the prediction error returned; it is a value of its own,   *)
(* not the power estimate, it is not floored at min_epsilon, and the gain  *)
(* coefficient (index 0) is the non-negative square root of a(n).          *)
(***************************************************************************)
\* g is the non-negative square root of a, to the precision of the numbers
IsRootOf(g, a) == g >= 0 /\ g * g <= a * Scale /\ a * Scale < (g + 1) * (g + 1)

C19_AdjustedErrorAndGain ==
    [][\A b \in Id :
          (RunStep(b) /\ est[b].kind = "gen" /\ Admitted(est[b], last'[b]) /\ out'[b].ret)
          => LET f == est[b].forgetting_factor
                 en == out'[b].prediction_error
                 a == buf'[b].prev_adjusted_error_
             IN /\ a = Mul(f, buf[b].prev_adjusted_error_) + Mul(One - f, Mul(en, en))
                /\ IsRootOf(Coefficients(buf'[b])[1], a)]_vars

\* successful calls have left an adjusted error below min_epsilon that is not
\* the power estimate, and a positive gain
C19_Witness ==
    /\ est[1].kind = "gen" /\ calls[1] >= 2 /\ Admitted(est[1], last[1]) /\ out[1].ret
    /\ 0 < buf[1].prev_adjusted_error_
    /\ buf[1].prev_adjusted_error_ < est[1].min_epsilon
    /\ buf[1].prev_adjusted_error_ # buf[1].prev_epsilon_
    /\ Coefficients(buf[1])[1] > 0

(***************************************************************************)
(* C20: in the generalized variant the accumulator of the gain is smoothed *)
(* with a forgetting factor distinct from the one that smooths the power   *)
(* estimate of the gradient step.                                          *)
(***************************************************************************)
\* the forgetting factors a constructor accepts
Factors == 0..(One - 1)

\* exponential smoothing of the square of v with forgetting factor f
Smooth(f, prev, v) == Mul(f, prev) + Mul(One - f, Mul(v, v))

\* the values the power estimate of this step on b can have been fed: tap 0
\* of the last stage, or with no tap what the read outside d_ delivers
PowerInputs(b) ==
    IF est[b].num_order >= 1 THEN {Tap(est[b], buf'[b].d_, est[b].num_stage - 1, 0)}
    ELSE Garbage

\* the step on b updates the gain accumulator with factor fa and the power
\* estimate with factor fp
SmoothedWith(b, fa, fp) ==
    /\ buf'[b].prev_adjusted_error_
           = Smooth(fa, buf[b].prev_adjusted_error_, out'[b].prediction_error)
    /\ \E t \in PowerInputs(b) :
          buf'[b].prev_epsilon_
              = Max(est[b].min_epsilon, Smooth(fp, buf[b].prev_epsilon_, t))

C20_DistinctTimeConstants ==
    [][\A b \in Id :
          GenStep(b) => \E fa \in Factors, fp \in Factors :
                            fa # fp /\ SmoothedWith(b, fa, fp)]_vars

\* as amended: both accumulators are smoothed with the one forgetting factor
\* of the estimator
C20_OneTimeConstant ==
    [][\A b \in Id :
          (RunStep(b) /\ est[b].kind = "gen" /\ Admitted(est[b], last'[b]))
          => SmoothedWith(b, est[b].forgetting_factor, est[b].forgetting_factor)]_vars

\* both accumulators have moved, by different amounts, under a forgetting
\* factor that is neither 0 nor the momentum
C20_Witness ==
    /\ est[1].kind = "gen" /\ calls[1] >= 2 /\ Admitted(est[1], last[1])
    /\ est[1].forgetting_factor > 0 /\ est[1].forgetting_factor # est[1].momentum
    /\ buf[1].prev_adjusted_error_ # One /\ buf[1].prev_epsilon_ # One
    /\ buf[1].prev_adjusted_error_ # buf[1].prev_epsilon_

(***************************************************************************)
(* C21: in the mel variant with order >= 1 the regressor update of one Run *)
(* is: r[0] becomes alpha * r[0] + (1 - alpha^2) * (the prediction error   *)
(* the previous call persisted); for i = 1..order-1, in increasing order,  *)
(* r[i] grows by alpha * (r[i+1] - r[i-1]), r[i-1] already updated in this *)
(* call and r[i+1] not yet; then the buffer shifts right by one, so that   *)
(* the old r[order] is discarded and r[0] equals r[1] afterwards.          *)
(***************************************************************************)
\* this step is a call on b of a mel estimator of order >= 1 that got past
\* the input check and the filter primitive
MelStep(b) ==
    /\ RanThrough(b) /\ est[b].kind = "mel" /\ est[b].num_order >= 1

\* r[i] as updated in this call, before the shift; r is the buffer the call
\* found (C++ index i is r[i + 1]) and pe the persisted prediction error
RECURSIVE UpdatedRegressor(_, _, _, _)
UpdatedRegressor(alpha, r, pe, i) ==
    IF i = 0 THEN Mul(alpha, r[1]) + Mul(One - Mul(alpha, alpha), pe)
    ELSE r[i + 1] + Mul(alpha, r[i + 2] - UpdatedRegressor(alpha, r, pe, i - 1))

C21_RegressorUpdate ==
    [][\A b \in Id :
          MelStep(b)
          => LET e == est[b]
                 r == RegressorFound(e, buf[b])
                 pe == buf[b].prev_prediction_error_
                 new == buf'[b].buffer_for_phi_digital_filter_
             IN /\ Len(new) = e.num_order + 1
                /\ new[1] = UpdatedRegressor(e.alpha, r, pe, 0)
                /\ \A i \in 1..e.num_order :
                      new[i + 1] = UpdatedRegressor(e.alpha, r, pe, i - 1)
                /\ new[1] = new[2]]_vars

\* an update with alpha # 0 in which the interior step has changed a value
C21_Witness ==
    /\ est[1].kind = "mel" /\ est[1].num_order = 2 /\ est[1].alpha # 0
    /\ calls[1] >= 3 /\ Admitted(est[1], last[1]) /\ last[1].filter_ok
    /\ buf[1].buffer_for_phi_digital_filter_[1] # 0
    /\ buf[1].buffer_for_phi_digital_filter_[3] # 0
    /\ buf[1].buffer_for_phi_digital_filter_[3] # buf[1].buffer_for_phi_digital_filter_[2]

(***************************************************************************)
(* C22: in the mel variant the regressor buffer after call n does not      *)
(* depend on the input sample of call n: its update reads the prediction   *)
(* error that call n-1 persisted (at the first call, the value the         *)
(* container starts with), and e(n) enters the buffer at call n+1.         *)
(***************************************************************************)
\* the last call on b was a call of the mel estimator past the filter primitive
MelRanThrough(b) ==
    /\ calls[b] >= 1 /\ est[b].kind = "mel"
    /\ Admitted(est[b], last[b]) /\ last[b].filter_ok

C22_RegressorLagsOneCall ==
    /\ [][\A b \in Id :
             (RanThrough(b) /\ est[b].kind = "mel")
             => \A x \in Samples :
                   MelRun(est[b], [last'[b] EXCEPT !.x = x], buf[b], out[b])
                           .buffer.buffer_for_phi_digital_filter_
                       = buf'[b].buffer_for_phi_digital_filter_]_vars
    /\ [][\A b \in Id :
             (RanThrough(b) /\ est[b].kind = "mel")
             => buf'[b].buffer_for_phi_digital_filter_[1]
                    = Mul(est[b].alpha, RegressorFound(est[b], buf[b])[1])
                        + Mul(One - Mul(est[b].alpha, est[b].alpha),
                              IF MelRanThrough(b) THEN out[b].prediction_error
                              ELSE buf[b].prev_prediction_error_)]_vars

\* the buffer holds the prediction error of the call before the last one,
\* which is not the one the last call returned
C22_Witness ==
    /\ calls[1] >= 2 /\ MelRanThrough(1)
    /\ buf[1].buffer_for_phi_digital_filter_[1] # 0
    /\ out[1].prediction_error # buf[1].buffer_for_phi_digital_filter_[1]

(***************************************************************************)
(* C23: in the mel variant with order >= 1 the power estimate is updated   *)
(* and floored before the gradient step; the step size mu =                *)
(* step_size_factor / (order * eps(n)) uses the floored estimate of this   *)
(* call, not the previous call's; for m = 1..order, g[m] becomes           *)
(* momentum * g[m] - 2 * (1 - momentum) * e(n) * regressor[m], with the    *)
(* regressor as shifted in this call, and coeff[m] decreases by mu times   *)
(* the g[m] just updated.                                                  *)
(***************************************************************************)
C23_GradientStepAfterFloor ==
    [][\A b \in Id :
          MelStep(b)
          => LET e == est[b]
                 en == out'[b].prediction_error
                 eps == Max(e.min_epsilon,
                            Smooth(e.forgetting_factor, buf[b].prev_epsilon_, en))
                 mu == Div(e.step_size_factor, e.num_order * eps)
                 regressor == buf'[b].buffer_for_phi_digital_filter_
                 g == buf'[b].gradient_
             IN /\ buf'[b].prev_epsilon_ = eps
                /\ \A m \in 1..e.num_order :
                      /\ g[m] = Mul(e.momentum, GradientFound(e, buf[b])[m])
                                  - Mul(Mul(2 * (One - e.momentum), en), regressor[m + 1])
                      /\ Coefficients(buf'[b])[m + 1]
                             = ShapeFound(e, buf[b])[m] - Mul(mu, g[m])]_vars

\* a gradient step has moved a coefficient, with a power estimate that is not
\* the one the container started with
C23_Witness ==
    /\ est[1].kind = "mel" /\ est[1].num_order >= 1 /\ est[1].momentum > 0
    /\ calls[1] >= 3 /\ Admitted(est[1], last[1]) /\ last[1].filter_ok
    /\ buf[1].prev_epsilon_ # One
    /\ buf[1].gradient_[1] # 0 /\ Coefficients(buf[1])[2] # 0
    /\ out[1].prediction_error # 0

(***************************************************************************)
(* C24: in the mel variant e(n) is what the filter primitive makes of x(n) *)
(* with a coefficient vector whose index 0 is 0 and whose index m, for     *)
(* m = 1..order, is the negation of shape coefficient m as the previous    *)
(* call left it: the gain term is not passed to the filter and the         *)
(* gradient step of call n has no effect on e(n).                          *)
(***************************************************************************)
C24_FilterGetsNegatedShape ==
    [][\A b \in Id :
          (RunStep(b) /\ est[b].kind = "mel" /\ Admitted(est[b], last'[b]))
          => LET e == est[b]
                 passed == buf'[b].inverse_mlsa_digital_filter_coefficients_
             IN /\ Len(passed) = e.num_order + 1
                /\ passed[1] = 0
                /\ \A m \in 1..e.num_order : passed[m + 1] = -ShapeFound(e, buf[b])[m]
                /\ last'[b].filter_ok
                   => out'[b].prediction_error
                          = MlsaDigitalFilterRun(e.num_order, passed, last'[b].x,
                                                 buf[b].buffer_for_mlsa_digital_filter_,
                                                 TRUE).y]_vars

\* the filter has been given a negated non-zero shape coefficient while the
\* gain term was not zero
C24_Witness ==
    /\ est[1].kind = "mel" /\ est[1].num_order >= 1
    /\ calls[1] >= 3 /\ Admitted(est[1], last[1]) /\ last[1].filter_ok
    /\ buf[1].inverse_mlsa_digital_filter_coefficients_[2] # 0
    /\ buf[1].inverse_mlsa_digital_filter_coefficients_[1] = 0
    /\ Coefficients(buf[1])[1] # 0
    /\ out[1].prediction_error # last[1].x

(***************************************************************************)
(* C25: for every configuration the constructors accept, order 0 and any   *)
(* num_stage >= 1 included, every element Run reads or writes in a vector  *)
(* of the state container lies within the bounds of that vector.           *)
(***************************************************************************)
Access(vector, index) == [vector |-> vector, index |-> index]

\* the sizes "Prepare memories" gives the vectors
Size(e, vector) ==
    CASE vector = "d_" -> e.num_order * e.num_stage
      [] vector = "gradient_" -> e.num_order
      [] OTHER -> e.num_order + 1

\* the elements (C++ indices) a call of AdaptiveMelCepstralAnalysis::Run
\* past the filter primitive reads or writes
MelAccesses(e) ==
    LET M == e.num_order
    IN {Access("mlsa_digital_filter_coefficients_", k) : k \in 0..M}
       \cup {Access("inverse_mlsa_digital_filter_coefficients_", k) : k \in 0..M}
       \cup {Access("buffer_for_phi_digital_filter_", 0)}
       \cup UNION {{Access("buffer_for_phi_digital_filter_", i - 1),
                    Access("buffer_for_phi_digital_filter_", i),
                    Access("buffer_for_phi_digital_filter_", i + 1)} : i \in 1..(M - 1)}
       \cup UNION {{Access("buffer_for_phi_digital_filter_", i),
                    Access("buffer_for_phi_digital_filter_", i - 1)} : i \in 1..M}
       \cup (IF 0 < M
             THEN UNION {{Access("buffer_for_phi_digital_filter_", 1 + i),
                          Access("gradient_", i),
                          Access("mlsa_digital_filter_coefficients_", 1 + i)}
                            : i \in 0..(M - 1)}
             ELSE {})

\* the elements a call of AdaptiveGeneralizedCepstralAnalysis::Run past the
\* input check reads or writes; d_.back() is the element at size - 1
GenAccesses(e) ==
    LET M == e.num_order
        N == e.num_stage
    IN {Access("d_", M * N - 1)}
       \cup UNION {UNION {{Access("normalized_generalized_cepstrum_", 1 + j),
                           Access("d_", M * i + j), Access("d_", M * i + j - 1)}
                             : j \in 1..(M - 1)}
                   \cup {Access("normalized_generalized_cepstrum_", 1),
                         Access("d_", M * i)} : i \in 0..(N - 1)}
       \cup {Access("d_", M * (N - 1))}
       \cup (IF 0 < M
             THEN UNION {{Access("gradient_", i),
                          Access("normalized_generalized_cepstrum_", 1 + i)}
                          \cup (IF i = M - 1 THEN {}
                                ELSE {Access("d_", M * (N - 1) + 1 + i)})
                            : i \in 0..(M - 1)}
             ELSE {})
       \cup {Access("normalized_generalized_cepstrum_", 0)}

InBounds(e) ==
    \A a \in (IF e.kind = "mel" THEN MelAccesses(e) ELSE GenAccesses(e)) :
        0 <= a.index /\ a.index < Size(e, a.vector)

C25_AccessesWithinBounds ==
    /\ [][\A b \in Id : RanThrough(b) => InBounds(est[b])]_vars
    /\ [][~crashed']_vars

(***************************************************************************)
(* C26: in the generalized variant with order >= 1 the regressor of the    *)
(* gradient step (the taps m+1 after the shift for m < order-1, last_e for *)
(* m = order-1) is, for every m in 0..order-1, tap m of the last stage's   *)
(* delay line as the call found it; the gradient and the coefficients are  *)
(* those the formulation on the taps found gives, after any sequence of    *)
(* calls.                                                                  *)
(***************************************************************************)
\* the regressor in the formulation on the taps the call found
EntryRegressor(e, buffer) ==
    [i \in 1..e.num_order |->
        Tap(e, DelayLinesFound(e, buffer), e.num_stage - 1, i - 1)]

C26_RegressorIsEntryTaps ==
    [][\A b \in Id :
          GenStep(b)
          => LET e == est[b]
                 M == e.num_order
                 N == e.num_stage
                 u == UpdateCoefficients(e, M, CoefficientsFound(e, buf[b]),
                                         GradientFound(e, buf[b]),
                                         EntryRegressor(e, buf[b]),
                                         out'[b].prediction_error,
                                         buf'[b].prev_epsilon_)
             IN /\ \A m \in 0..(M - 1) :
                      (IF m = M - 1 THEN DelayLinesFound(e, buf[b])[M * N]
                       ELSE Tap(e, buf'[b].d_, N - 1, m + 1))
                          = EntryRegressor(e, buf[b])[m + 1]
                /\ buf'[b].gradient_ = u.gradient
                /\ Tail(Coefficients(buf'[b])) = Tail(u.coefficients)]_vars

\* gradient steps on non-zero taps have moved both coefficients of an
\* estimator of order 2
C26_Witness ==
    /\ est[1].kind = "gen" /\ est[1].num_order = 2
    /\ calls[1] >= 4 /\ Admitted(est[1], last[1])
    /\ buf[1].gradient_[1] # 0 /\ buf[1].gradient_[2] # 0
    /\ Coefficients(buf[1])[2] # 0 /\ Coefficients(buf[1])[3] # 0

(***************************************************************************)
(* C27: for both estimators, a state container that was last used by an    *)
(* estimator of a different order behaves on its next Run exactly like a   *)
(* fresh container: all its persistent state, the lag scalars (previous    *)
(* prediction error, previous power estimate, previous adjusted error)     *)
(* included, is back at its initial value.                                 *)
(***************************************************************************)
\* the instance that made the last of the calls t on state container b, 0 if none
RECURSIVE LastUser(_, _)
LastUser(b, t) ==
    IF t = <<>> THEN 0
    ELSE IF t[Len(t)].b = b THEN t[Len(t)].i
    ELSE LastUser(b, SubSeq(t, 1, Len(t) - 1))

C27_OtherOrderMeansFresh ==
    [][\A b \in Id :
          (RunStep(b) /\ LastUser(b, tape) # 0)
          => LET call == tape'[Len(tape')]
                 e == est[call.i]
             IN est[LastUser(b, tape)].num_order # e.num_order
                => [buffer |-> buf'[b], out |-> out'[b]]
                       \in RunOutcomes(e, call.c, Fresh(buf[b].kind), out[b])]_vars

(***************************************************************************)
(* C28: in the generalized variant, for every valid configuration          *)
(* (forgetting_factor = 0 included) and every input sequence (zero samples *)
(* included), the gain coefficient handed to the inverse gain normalizer   *)
(* after the gain update is strictly positive.                             *)
(***************************************************************************)
C28_GainHandedOverIsPositive ==
    [][\A b \in Id :
          (RunStep(b) /\ est[b].kind = "gen" /\ Admitted(est[b], last'[b]))
          => Coefficients(buf'[b])[1] > 0]_vars

(***************************************************************************)
(* C29: InputSourceFromArray::Get, called repeatedly, returns consecutive  *)
(* non-overlapping blocks of read_size array elements in order and never   *)
(* reads at or beyond array_size; without zero padding a trailing partial  *)
(* block makes Get fail with the position and the output buffer unchanged; *)
(* with zero padding the trailing partial block is returned once, filled   *)
(* up with zeros; once the position has reached array_size every later Get *)
(* fails.                                                                  *)
(***************************************************************************)
\* this step is a call of Get on a valid instance with a vector to fill
GetStep ==
    /\ source'.calls = source.calls + 1
    /\ source.object.is_valid_ /\ ~source'.null_buffer

\* the block of read_size elements at position p of an array of n elements,
\* filled up with zeros
Block(p, read_size, n) ==
    [i \in 1..read_size |-> IF p + i - 1 < n THEN ArrayValue(p + i - 1) ELSE 0]

\* the call fails and changes neither the position nor the caller's vector
GetFails ==
    /\ ~source'.ret
    /\ source'.object = source.object
    /\ source'.buffer = source.buffer

\* the call returns the block at position p and moves the position past it
GetReturns(p) ==
    /\ source'.ret
    /\ source'.buffer = Block(p, source.object.read_size_, source.object.array_size_)
    /\ source'.object.position_ = p + source.object.read_size_

C29_GetReturnsConsecutiveBlocks ==
    /\ [](~source.beyond /\ ~source.ended)
    /\ [][GetStep
          => LET r == source.object.read_size_
                 n == source.object.array_size_
                 p == source.gets * r
             IN /\ source.object.position_ = p
                /\ IF n <= p THEN GetFails
                   ELSE IF p + r <= n \/ source.object.zero_padding_ THEN GetReturns(p)
                   ELSE GetFails]_vars

(***************************************************************************)
(* C30: StatisticsAccumulation::Clear does nothing when the instance is    *)
(* invalid or when the buffer pointer is null, and never dereferences a    *)
(* null buffer; otherwise it clears the buffer.                            *)
(***************************************************************************)
C30_ClearGuardsInstanceAndBuffer ==
    /\ [][(stats'.op = "Clear" /\ stats'.calls = stats.calls + 1)
          => IF ~stats.object.is_valid_ \/ stats'.null_buffer
             THEN stats'.buffer = stats.buffer
             ELSE stats'.buffer = BufferClear(stats.buffer)]_vars
    /\ [](~stats.ended)

====
